---- MODULE Spec2Model ----
(***************************************************************************)
(* Model of src/code.py: the batch job that loads the CSV/XLSX files of a  *)
(* directory (carregar_dados), computes the indicators (calcular_metricas),*)
(* writes the charts (gerar_graficos) and exports the spreadsheet and the  *)
(* PDF (exportar_excel, exportar_pdf), sequenced by main.                  *)
(*                                                                         *)
(* A DataFrame is [cols, rows]: cols the column labels in order, rows a    *)
(* sequence of rows, each a sequence of cells aligned with cols.  A cell   *)
(* is [kind, n, s]: kind "int" (value n), "str" (value s), "null" (NaN),   *)
(* "ts" (Timestamp, n = yyyymmdd) or "nat" (NaT).  Numeric columns hold    *)
(* numbers or nulls, date columns hold text or nulls.  Accented letters of *)
(* the source's string literals are written without the accent.            *)
(***************************************************************************)
EXTENDS Integers, Sequences, FiniteSets, TLC

VARIABLES dir, pc, arquivos, i, dfs, df, metricas, graficos, excel, pdf,
          out, traceback, erro, status

vars == <<dir, pc, arquivos, i, dfs, df, metricas, graficos, excel, pdf,
          out, traceback, erro, status>>

\* Largest number of entries os.listdir returns in the model.
MaxArquivos == 3

(* ------------------------------ cells --------------------------------- *)

Null == [kind |-> "null", n |-> 0, s |-> ""]

NaT == [kind |-> "nat", n |-> 0, s |-> ""]

Num(x) == [kind |-> "int", n |-> x, s |-> ""]

Str(x) == [kind |-> "str", n |-> 0, s |-> x]

Ts(x) == [kind |-> "ts", n |-> x, s |-> ""]

DataFrameVazio == [cols |-> <<>>, rows |-> <<>>]

(* --------------------------- the directory ---------------------------- *)

\* The files a directory may hold: nome is the literal file name, ext the
\* suffix of nome that str.endswith looks at, legivel whether pd.read_csv /
\* pd.read_excel parses the content, cols/rows the table it parses to.
Catalogo ==
  { [nome |-> "a.csv", ext |-> ".csv", legivel |-> TRUE,
     cols |-> <<"receita", "despesa">>,
     rows |-> << <<Num(100), Num(40)>>, <<Num(200), Num(60)>> >>],
    [nome |-> "b.csv", ext |-> ".csv", legivel |-> TRUE,
     cols |-> <<"receita">>,
     rows |-> << <<Num(50)>> >>],
    [nome |-> "c.xlsx", ext |-> ".xlsx", legivel |-> TRUE,
     cols |-> <<"Funcionario", "Producao">>,
     rows |-> << <<Num(1), Num(10)>>, <<Num(2), Num(30)>> >>],
    [nome |-> "d.csv", ext |-> ".csv", legivel |-> TRUE,
     cols |-> <<"data", "receita", "Origem_Arquivo">>,
     rows |-> << <<Str("2024-01-15"), Num(10), Str("velho.csv")>>,
                 <<Str("abc"), Num(20), Str("velho.csv")>> >>],
    [nome |-> "e.csv", ext |-> ".csv", legivel |-> TRUE,
     cols |-> <<"Data", "Receita", "Despesa">>,
     rows |-> << <<Str("2024-02-03"), Num(7), Num(5)>> >>],
    [nome |-> "f.csv", ext |-> ".csv", legivel |-> FALSE,
     cols |-> <<>>, rows |-> <<>>],
    [nome |-> "i.xlsx", ext |-> ".xlsx", legivel |-> FALSE,
     cols |-> <<>>, rows |-> <<>>],
    [nome |-> "notas.txt", ext |-> ".txt", legivel |-> FALSE,
     cols |-> <<>>, rows |-> <<>>],
    [nome |-> "g.xlsx", ext |-> ".xlsx", legivel |-> TRUE,
     cols |-> <<"vendas", "quantidade", "funcionario", "producao", "data", "despesa">>,
     rows |-> << <<Num(300), Num(3), Num(1), Num(10), Str("2024-01-15"), Num(8)>>,
                 <<Null, Num(2), Num(2), Num(30), Null, Null>> >>],
    [nome |-> "h.csv", ext |-> ".csv", legivel |-> TRUE,
     cols |-> <<"funcionario", "producao", "Vendas", "Quantidade">>,
     rows |-> <<>>] }

\* The listings os.listdir can return: file names are unique in a directory.
Diretorios ==
  UNION { { d \in [1..k -> Catalogo] :
              \A a, b \in 1..k : a # b => d[a].nome # d[b].nome } :
          k \in 0..MaxArquivos }

(* ------------------------------ helpers ------------------------------- *)

Contem(seq, x) == \E j \in 1..Len(seq) : seq[j] = x

\* Position of the first occurrence of x in seq, 0 when absent.
Posicao(seq, x) ==
  IF Contem(seq, x)
  THEN CHOOSE j \in 1..Len(seq) : seq[j] = x /\ \A h \in 1..(j - 1) : seq[h] # x
  ELSE 0

\* str.lower on the column labels that occur in the model.
str_lower(c) ==
  CASE c = "Receita" -> "receita"
    [] c = "Despesa" -> "despesa"
    [] c = "Funcionario" -> "funcionario"
    [] c = "Producao" -> "producao"
    [] c = "Vendas" -> "vendas"
    [] c = "Quantidade" -> "quantidade"
    [] c = "Data" -> "data"
    [] c = "Origem_Arquivo" -> "origem_arquivo"
    [] OTHER -> c

\* f.endswith(('.csv', '.xlsx'))
endswith(f) == f.ext = ".csv" \/ f.ext = ".xlsx"

\* arquivos = [f for f in os.listdir(diretorio) if f.endswith(...)]
listar(d) == SelectSeq(d, endswith)

\* Mutation of NenhumArquivo: a single recognized file counts as none.
NenhumArquivoM(arqs) == Len(arqs) <= 1

\* if not arquivos: raise FileNotFoundError
NenhumArquivo(arqs) == arqs = <<>>

\* Mutation of NenhumDado: one failed file is enough to raise.
NenhumDadoM(arqs, tabelas) == Len(tabelas) < Len(arqs)

\* if not dfs: raise ValueError
NenhumDado(arqs, tabelas) == tabelas = <<>>

\* Mutation of ComOrigem: a column the file already has is kept.
ComOrigemM(t, nome) ==
  IF Contem(t.cols, "Origem_Arquivo")
  THEN t
  ELSE [cols |-> Append(t.cols, "Origem_Arquivo"),
        rows |-> [r \in 1..Len(t.rows) |-> Append(t.rows[r], Str(nome))]]

\* df['Origem_Arquivo'] = arquivo: overwrites the column when the file
\* already has one, appends it otherwise; every row gets the same value.
ComOrigem(t, nome) ==
  IF Contem(t.cols, "Origem_Arquivo")
  THEN [cols |-> t.cols,
        rows |-> [r \in 1..Len(t.rows) |->
                    [t.rows[r] EXCEPT ![Posicao(t.cols, "Origem_Arquivo")] = Str(nome)]]]
  ELSE [cols |-> Append(t.cols, "Origem_Arquivo"),
        rows |-> [r \in 1..Len(t.rows) |-> Append(t.rows[r], Str(nome))]]

\* Labels of a that are not yet in acc, appended in order.
RECURSIVE Acrescenta(_, _)
Acrescenta(acc, a) ==
  IF a = <<>> THEN acc
  ELSE Acrescenta(IF Contem(acc, Head(a)) THEN acc ELSE Append(acc, Head(a)), Tail(a))

\* Mutation of UniaoColunas: the labels common to every frame (join='inner').
RECURSIVE UniaoColunasM(_)
UniaoColunasM(tabelas) ==
  IF tabelas = <<>> THEN <<>>
  ELSE IF Len(tabelas) = 1 THEN tabelas[1].cols
  ELSE SelectSeq(tabelas[1].cols,
                 LAMBDA c : Contem(UniaoColunasM(Tail(tabelas)), c))

\* pd.concat's column index: the union of the frames' labels in order of
\* first appearance (join='outer', sort=False).
RECURSIVE UniaoColunas(_)
UniaoColunas(tabelas) ==
  IF tabelas = <<>> THEN <<>>
  ELSE Acrescenta(tabelas[1].cols, UniaoColunas(Tail(tabelas)))

\* The rows of t laid out on the labels cols; a label t lacks gives NaN.
Reindexa(t, cols) ==
  [r \in 1..Len(t.rows) |->
     [j \in 1..Len(cols) |->
        IF Contem(t.cols, cols[j]) THEN t.rows[r][Posicao(t.cols, cols[j])] ELSE Null]]

\* The rows of the frames, one frame after the other.
RECURSIVE Empilha(_, _)
Empilha(tabelas, cols) ==
  IF tabelas = <<>> THEN <<>>
  ELSE Reindexa(Head(tabelas), cols) \o Empilha(Tail(tabelas), cols)

Inverte(seq) == [j \in 1..Len(seq) |-> seq[Len(seq) + 1 - j]]

\* Mutation of pd_concat: the frames are stacked last to first.
pd_concatM(tabelas) ==
  [cols |-> UniaoColunas(tabelas), rows |-> Empilha(Inverte(tabelas), UniaoColunas(tabelas))]

\* pd.concat(dfs, ignore_index=True)
pd_concat(tabelas) ==
  [cols |-> UniaoColunas(tabelas), rows |-> Empilha(tabelas, UniaoColunas(tabelas))]

(* ------------------------- calcular_metricas -------------------------- *)

\* A metric value is the quotient num/den; den = 0 is a non-finite float.
Inteiro(x) == [num |-> x, den |-> 1]

Quociente(a, b) == [num |-> a, den |-> b]

\* colunas = df.columns.str.lower()
colunas(t) == [j \in 1..Len(t.cols) |-> str_lower(t.cols[j])]

\* df.columns[colunas == tok][0]: the first label whose lower case is tok.
PrimeiraColuna(t, tok) == t.cols[Posicao(colunas(t), tok)]

\* Series.sum() of column c: NaN cells are skipped (skipna=True).
RECURSIVE SomaLinhas(_, _)
SomaLinhas(linhas, p) ==
  IF linhas = <<>> THEN 0
  ELSE (IF Head(linhas)[p].kind = "int" THEN Head(linhas)[p].n ELSE 0)
       + SomaLinhas(Tail(linhas), p)

Soma(t, c) == SomaLinhas(t.rows, Posicao(t.cols, c))

\* Series.nunique() of column c: distinct non-null values.
nunique(t, c) ==
  Cardinality({ t.rows[r][Posicao(t.cols, c)] : r \in 1..Len(t.rows) } \ {Null})

\* metricas[k]
Valor(m, k) == (CHOOSE e \in { m[j] : j \in 1..Len(m) } : e.k = k).v

Chaves(m) == [j \in 1..Len(m) |-> m[j].k]

\* Mutation of LucroLiquido: the operands are swapped.
LucroLiquidoM(m) ==
  Inteiro(Valor(m, "Custo Operacional Total").num - Valor(m, "Receita Total").num)

\* metricas['Receita Total'] - metricas['Custo Operacional Total']
LucroLiquido(m) ==
  Inteiro(Valor(m, "Receita Total").num - Valor(m, "Custo Operacional Total").num)

\* The body of calcular_metricas.  zd says whether a division by zero raises
\* ZeroDivisionError (Python number) or gives a non-finite float (numpy
\* number); which one depends on the dtype of the summed column.
calcular_metricas(t, zd) ==
  LET cl == colunas(t)
      m1 == IF Contem(cl, "receita")
            THEN << [k |-> "Receita Total",
                     v |-> Inteiro(Soma(t, PrimeiraColuna(t, "receita")))] >>
            ELSE <<>>
      m2 == m1 \o (IF Contem(cl, "despesa")
                   THEN << [k |-> "Custo Operacional Total",
                            v |-> Inteiro(Soma(t, PrimeiraColuna(t, "despesa")))] >>
                   ELSE <<>>)
      r3 == Contem(cl, "funcionario") /\ Contem(cl, "producao")
      \* df['producao'] and df['funcionario'] index by the literal label
      k3 == r3 /\ (~Contem(t.cols, "producao") \/ ~Contem(t.cols, "funcionario"))
      z3 == r3 /\ ~k3 /\ nunique(t, "funcionario") = 0 /\ zd
      m3 == m2 \o (IF r3
                   THEN << [k |-> "Produtividade Media",
                            v |-> Quociente(Soma(t, "producao"), nunique(t, "funcionario"))] >>
                   ELSE <<>>)
      m4 == m3 \o (IF Contem(cl, "receita") /\ Contem(cl, "despesa")
                   THEN << [k |-> "Lucro Liquido", v |-> LucroLiquido(m3)] >>
                   ELSE <<>>)
      r5 == Contem(cl, "vendas") /\ Contem(cl, "quantidade")
      k5 == r5 /\ (~Contem(t.cols, "vendas") \/ ~Contem(t.cols, "quantidade"))
      z5 == r5 /\ ~k5 /\ Soma(t, "quantidade") = 0 /\ zd
      m5 == m4 \o (IF r5
                   THEN << [k |-> "Ticket Medio",
                            v |-> Quociente(Soma(t, "vendas"), Soma(t, "quantidade"))] >>
                   ELSE <<>>)
  IN  IF k3 THEN [erro |-> "KeyError", metricas |-> <<>>]
      ELSE IF z3 THEN [erro |-> "ZeroDivisionError", metricas |-> <<>>]
      ELSE IF k5 THEN [erro |-> "KeyError", metricas |-> <<>>]
      ELSE IF z5 THEN [erro |-> "ZeroDivisionError", metricas |-> <<>>]
      ELSE [erro |-> "", metricas |-> m5]

(* --------------------------- gerar_graficos --------------------------- *)

\* pd.to_datetime(v, errors='coerce') on the date texts of the model:
\* a date gives its Timestamp (yyyymmdd), anything else gives NaT.
to_datetime(c) ==
  IF c.kind # "str" THEN NaT
  ELSE CASE c.s = "2024-01-15" -> Ts(20240115)
         [] c.s = "2024-02-03" -> Ts(20240203)
         [] OTHER -> NaT

\* df['data'] = pd.to_datetime(df['data'], errors='coerce'): assigns the
\* column of the frame object the caller passed.
ConverteData(t) ==
  [cols |-> t.cols,
   rows |-> [r \in 1..Len(t.rows) |->
               [t.rows[r] EXCEPT ![Posicao(t.cols, "data")] = to_datetime(@)]]]

\* df = df.dropna(subset=['data']); df['mes'] = df['data'].dt.to_period('M'):
\* a new frame bound to the local name, the month written as yyyymm.
ComMes(t) ==
  LET p == Posicao(t.cols, "data")
      validas == SelectSeq(t.rows, LAMBDA l : l[p].kind = "ts")
  IN  [cols |-> Append(t.cols, "mes"),
       rows |-> [r \in 1..Len(validas) |-> Append(validas[r], Num(validas[r][p].n \div 100))]]

\* The (x, y) points px.line / px.bar receive for column y.
Pontos(t, y) ==
  [r \in 1..Len(t.rows) |->
     <<t.rows[r][Posicao(t.cols, "mes")], t.rows[r][Posicao(t.cols, y)]>>]

\* The chart files the body writes, in order.
Planejados(t) ==
  IF ~Contem(t.cols, "data") THEN <<>>
  ELSE (IF Contem(t.cols, "receita")
        THEN << [nome |-> "grafico_receita.html",
                 pontos |-> Pontos(ComMes(ConverteData(t)), "receita")] >>
        ELSE <<>>)
       \o
       (IF Contem(t.cols, "despesa")
        THEN << [nome |-> "grafico_despesa.html",
                 pontos |-> Pontos(ComMes(ConverteData(t)), "despesa")] >>
        ELSE <<>>)

(* ------------------------------- main --------------------------------- *)

Init ==
  /\ dir \in Diretorios
  /\ pc = "makedirs"
  /\ arquivos = <<>>
  /\ i = 0
  /\ dfs = <<>>
  /\ df = DataFrameVazio
  /\ metricas = <<>>
  /\ graficos = {}
  /\ excel = <<>>
  /\ pdf = <<>>
  /\ out = <<>>
  /\ traceback = FALSE
  /\ erro = ""
  /\ status = -1

\* except Exception as e: print(f"[ERRO] {e}"); sys.exit(1)
Capturada(tipo, antes) ==
  /\ out' = out \o antes \o <<"[ERRO]">>
  /\ erro' = tipo
  /\ status' = 1
  /\ pc' = "fim"

\* os.makedirs(args.output, exist_ok=True), before the try block: an OSError
\* here reaches the interpreter, which prints the traceback and exits with 1.
Makedirs ==
  /\ pc = "makedirs"
  /\ \E ok \in BOOLEAN :
       IF ok
       THEN /\ pc' = "carregar"
            /\ UNCHANGED <<traceback, erro, status>>
       ELSE /\ pc' = "fim"
            /\ traceback' = TRUE
            /\ erro' = "OSError"
            /\ status' = 1
  /\ UNCHANGED <<dir, arquivos, i, dfs, df, metricas, graficos, excel, pdf, out>>

\* carregar_dados, up to the loop: list, filter, raise when nothing is left.
CarregarInicio ==
  /\ pc = "carregar"
  /\ arquivos' = listar(dir)
  /\ IF NenhumArquivo(listar(dir))
     THEN Capturada("FileNotFoundError", <<"[INFO] Carregando dados...">>)
     ELSE /\ pc' = "laco"
          /\ out' = Append(out, "[INFO] Carregando dados...")
          /\ UNCHANGED <<erro, status>>
  /\ UNCHANGED <<dir, i, dfs, df, metricas, graficos, excel, pdf, traceback>>

\* One iteration of the loop over arquivos.
CarregarArquivo ==
  /\ pc = "laco"
  /\ i < Len(arquivos)
  /\ i' = i + 1
  /\ LET arquivo == arquivos[i + 1]
     IN  IF arquivo.legivel
         THEN /\ dfs' = Append(dfs, ComOrigem([cols |-> arquivo.cols, rows |-> arquivo.rows],
                                              arquivo.nome))
              /\ out' = out
         ELSE /\ dfs' = dfs
              /\ out' = Append(out, "[AVISO] Erro ao carregar")
  /\ UNCHANGED <<dir, pc, arquivos, df, metricas, graficos, excel, pdf, traceback, erro, status>>

\* carregar_dados after the loop: raise when nothing was read, else concat.
CarregarFim ==
  /\ pc = "laco"
  /\ i = Len(arquivos)
  /\ IF NenhumDado(arquivos, dfs)
     THEN /\ Capturada("ValueError", <<>>)
          /\ df' = df
     ELSE /\ df' = pd_concat(dfs)
          /\ pc' = "metricas"
          /\ UNCHANGED <<out, erro, status>>
  /\ UNCHANGED <<dir, arquivos, i, dfs, metricas, graficos, excel, pdf, traceback>>

\* metricas = calcular_metricas(df), and the except clause when it raises.
CalcularMetricas ==
  /\ pc = "metricas"
  /\ \E zd \in BOOLEAN :
       LET res == calcular_metricas(df, zd)
       IN  IF res.erro # ""
           THEN /\ Capturada(res.erro, <<"[INFO] Calculando metricas...">>)
                /\ metricas' = metricas
           ELSE /\ metricas' = res.metricas
                /\ pc' = "graficos"
                /\ out' = Append(out, "[INFO] Calculando metricas...")
                /\ UNCHANGED <<erro, status>>
  /\ UNCHANGED <<dir, arquivos, i, dfs, df, graficos, excel, pdf, traceback>>

\* gerar_graficos; falha = n makes the n-th write_html raise OSError.
GerarGraficos ==
  /\ pc = "graficos"
  /\ df' = IF Contem(df.cols, "data") THEN ConverteData(df) ELSE df
  /\ \E falha \in 0..Len(Planejados(df)) :
       IF falha = 0
       THEN /\ graficos' = { Planejados(df)[j] : j \in 1..Len(Planejados(df)) }
            /\ pc' = "excel"
            /\ out' = out \o <<"[INFO] Gerando graficos...">>
                          \o (IF Contem(df.cols, "data")
                              THEN <<"[INFO] Graficos interativos gerados com sucesso.">>
                              ELSE <<>>)
            /\ UNCHANGED <<erro, status>>
       ELSE /\ graficos' = { Planejados(df)[j] : j \in 1..(falha - 1) }
            /\ Capturada("OSError", <<"[INFO] Gerando graficos...">>)
  /\ UNCHANGED <<dir, arquivos, i, dfs, metricas, excel, pdf, traceback>>

\* exportar_excel: the two sheets of relatorio_administrativo.xlsx.
ExportarExcel ==
  /\ pc = "excel"
  /\ \E ok \in BOOLEAN :
       IF ok
       THEN /\ excel' = << [dados |-> df, indicadores |-> metricas] >>
            /\ pc' = "pdf"
            /\ out' = out \o <<"[INFO] Exportando relatorios...",
                               "[INFO] Relatorio Excel salvo">>
            /\ UNCHANGED <<erro, status>>
       ELSE /\ excel' = excel
            /\ Capturada("OSError", <<"[INFO] Exportando relatorios...">>)
  /\ UNCHANGED <<dir, arquivos, i, dfs, df, metricas, graficos, pdf, traceback>>

\* exportar_pdf and the end of the try block: one line per metric, 20 points
\* apart from y = 760 down, then the success message and exit status 0.
ExportarPdf ==
  /\ pc = "pdf"
  /\ \E ok \in BOOLEAN :
       IF ok
       THEN /\ pdf' = << [j \in 1..Len(metricas) |->
                            [k |-> metricas[j].k, v |-> metricas[j].v,
                             y |-> 760 - 20 * (j - 1)]] >>
            /\ pc' = "fim"
            /\ out' = out \o <<"[INFO] Relatorio PDF salvo", "[SUCESSO] Processo concluido!">>
            /\ status' = 0
            /\ erro' = erro
       ELSE /\ pdf' = pdf
            /\ Capturada("OSError", <<>>)
  /\ UNCHANGED <<dir, arquivos, i, dfs, df, metricas, graficos, excel, traceback>>

Next ==
  \/ Makedirs
  \/ CarregarInicio
  \/ CarregarArquivo
  \/ CarregarFim
  \/ CalcularMetricas
  \/ GerarGraficos
  \/ ExportarExcel
  \/ ExportarPdf

Spec == Init /\ [][Next]_vars

TypeOK ==
  /\ pc \in {"makedirs", "carregar", "laco", "metricas", "graficos", "excel", "pdf", "fim"}
  /\ status \in {-1, 0, 1}
  /\ i \in 0..Len(arquivos)

(* ------------------- what the directory determines -------------------- *)

\* The listed files with a recognized extension, in listing order.
Elegiveis == SelectSeq(dir, LAMBDA f : f.ext \in {".csv", ".xlsx"})

\* Those of them that parse.
Bons == SelectSeq(Elegiveis, LAMBDA f : f.legivel)

\* Number of rows of the files before the j-th one.
RECURSIVE Deslocamento(_, _)
Deslocamento(fs, j) ==
  IF j <= 1 THEN 0 ELSE Len(fs[j - 1].rows) + Deslocamento(fs, j - 1)

TotalLinhas(fs) == Deslocamento(fs, Len(fs) + 1)

\* Sum of the numbers in the first n rows at position p.
RECURSIVE SomaAte(_, _, _)
SomaAte(linhas, p, n) ==
  IF n = 0 THEN 0
  ELSE SomaAte(linhas, p, n - 1) + (IF linhas[n][p].kind = "int" THEN linhas[n][p].n ELSE 0)

\* Sum of column c over the files that have it, file by file.
RECURSIVE TotalColuna(_, _, _)
TotalColuna(fs, c, n) ==
  IF n = 0 THEN 0
  ELSE TotalColuna(fs, c, n - 1)
       + (IF Contem(fs[n].cols, c)
          THEN SomaAte(fs[n].rows, Posicao(fs[n].cols, c), Len(fs[n].rows))
          ELSE 0)

\* The consolidated table has a column whose lower-cased label is tok.
TemColuna(tok) == \E j \in 1..Len(df.cols) : str_lower(df.cols[j]) = tok

\* The first label of the consolidated table whose lower case is tok.
Rotulo(tok) ==
  df.cols[CHOOSE j \in 1..Len(df.cols) :
            /\ str_lower(df.cols[j]) = tok
            /\ \A h \in 1..(j - 1) : str_lower(df.cols[h]) # tok]

Nomes(fs) == [j \in 1..Len(fs) |-> fs[j].nome]

Quantos(seq, x) == Cardinality({ j \in 1..Len(seq) : seq[j] = x })

\* carregar_dados has just returned its table to main.
CarregarRetornou == pc = "metricas"

\* calcular_metricas was called / has returned its mapping.
MetricasChamada == Contem(out, "[INFO] Calculando metricas...")

MetricasRetornou == MetricasChamada /\ erro \notin {"KeyError", "ZeroDivisionError"}

\* gerar_graficos has returned.
GraficosRetornou == pc \in {"excel", "pdf"} \/ (pc = "fim" /\ status = 0)
                    \/ Contem(out, "[INFO] Exportando relatorios...")

(* ------------------------------- claims ------------------------------- *)

\* C1: an exception raised by any step, the creation of the output
\* directory included, leaves exactly one "[ERRO]" message and exit status 1;
\* a run whose steps all complete prints the success message and exits
\* with 0; the success message never appears in a run that exits with 1.
C1_ErroUnicoEmQualquerPasso ==
  /\ status = 1 => /\ Quantos(out, "[ERRO]") = 1
                   /\ ~Contem(out, "[SUCESSO] Processo concluido!")
  /\ status = 0 => /\ Contem(out, "[SUCESSO] Processo concluido!")
                   /\ Quantos(out, "[ERRO]") = 0

\* C2: when at least one recognized file parses, carregar_dados returns a
\* table even if other files fail, and its rows are exactly the rows of the
\* parsed files, in listing order and in the order of each file.
C2_LinhasDosArquivosLidos ==
  Bons # <<>> =>
    /\ erro \notin {"FileNotFoundError", "ValueError"}
    /\ (pc = "laco" /\ i = Len(arquivos)) => dfs # <<>>
    /\ CarregarRetornou =>
         /\ Len(df.rows) = TotalLinhas(Bons)
         /\ \A j \in 1..Len(Bons) : \A r \in 1..Len(Bons[j].rows) :
              \A c \in { Bons[j].cols[h] : h \in 1..Len(Bons[j].cols) } \ {"Origem_Arquivo"} :
                /\ Contem(df.cols, c)
                /\ df.rows[Deslocamento(Bons, j) + r][Posicao(df.cols, c)]
                     = Bons[j].rows[r][Posicao(Bons[j].cols, c)]

C2_Witness ==
  /\ CarregarRetornou
  /\ Len(Bons) >= 2
  /\ Len(Elegiveis) > Len(Bons)
  /\ \A j \in 1..Len(Bons) : Bons[j].rows # <<>>
  /\ Contem(out, "[AVISO] Erro ao carregar")

\* C3: carregar_dados raises ValueError exactly when the directory has a
\* recognized file and none of them parses, and then returns no table.
C3_NenhumDadoCarregado ==
  (pc \notin {"makedirs", "carregar", "laco"} /\ ~traceback) =>
    /\ erro = "ValueError" <=> (Elegiveis # <<>> /\ Bons = <<>>)
    /\ erro = "ValueError" => (df = DataFrameVazio /\ pc = "fim" /\ status = 1)

C3_Witness ==
  /\ erro = "ValueError"
  /\ Len(Elegiveis) >= 2
  /\ Quantos(out, "[AVISO] Erro ao carregar") = Len(Elegiveis)

\* C4: carregar_dados raises FileNotFoundError exactly when the directory
\* has no file with a recognized extension, and before any file is parsed.
C4_NenhumArquivoReconhecido ==
  (pc \notin {"makedirs", "carregar"} /\ ~traceback) =>
    /\ erro = "FileNotFoundError" <=> Elegiveis = <<>>
    /\ erro = "FileNotFoundError" =>
         /\ i = 0
         /\ dfs = <<>>
         /\ ~Contem(out, "[AVISO] Erro ao carregar")
         /\ pc = "fim"
         /\ status = 1

C4_Witness ==
  /\ erro = "FileNotFoundError"
  /\ dir # <<>>

\* The indicators whose columns are present under case-insensitive matching,
\* in evaluation order.
ChavesEsperadas ==
  (IF TemColuna("receita") THEN <<"Receita Total">> ELSE <<>>)
  \o (IF TemColuna("despesa") THEN <<"Custo Operacional Total">> ELSE <<>>)
  \o (IF TemColuna("funcionario") /\ TemColuna("producao")
      THEN <<"Produtividade Media">> ELSE <<>>)
  \o (IF TemColuna("receita") /\ TemColuna("despesa") THEN <<"Lucro Liquido">> ELSE <<>>)
  \o (IF TemColuna("vendas") /\ TemColuna("quantidade") THEN <<"Ticket Medio">> ELSE <<>>)

\* C5: whatever the letter case of the column labels, calcular_metricas
\* raises no KeyError and returns exactly the indicators whose columns are
\* present under case-insensitive matching, in the fixed order (a division
\* by zero, which the specification leaves open, is set aside).
C5_TodasAsRegrasSemCaixa ==
  MetricasChamada =>
    /\ erro # "KeyError"
    /\ erro # "ZeroDivisionError" => Chaves(metricas) = ChavesEsperadas

\* C6: in the returned mapping 'Lucro Liquido' is present exactly when the
\* table has a receita and a despesa column, and then equals 'Receita Total'
\* minus 'Custo Operacional Total'; with receita and no despesa the mapping
\* has 'Receita Total' and no 'Lucro Liquido'.
C6_LucroLiquido ==
  MetricasRetornou =>
    /\ Contem(Chaves(metricas), "Lucro Liquido")
         <=> (TemColuna("receita") /\ TemColuna("despesa"))
    /\ Contem(Chaves(metricas), "Lucro Liquido") =>
         /\ Contem(Chaves(metricas), "Receita Total")
         /\ Contem(Chaves(metricas), "Custo Operacional Total")
         /\ Valor(metricas, "Lucro Liquido").den = 1
         /\ Valor(metricas, "Lucro Liquido").num
              = Valor(metricas, "Receita Total").num
                - Valor(metricas, "Custo Operacional Total").num
    /\ (TemColuna("receita") /\ ~TemColuna("despesa")) =>
         /\ Contem(Chaves(metricas), "Receita Total")
         /\ ~Contem(Chaves(metricas), "Lucro Liquido")

C6_Witness ==
  /\ MetricasRetornou
  /\ Contem(Chaves(metricas), "Lucro Liquido")
  /\ Valor(metricas, "Lucro Liquido").num = 200
  /\ Valor(metricas, "Receita Total").num = 300

\* C7: in the returned table every row carries in Origem_Arquivo the
\* literal name of the file it was read from, also when the file has a
\* column of that name already.
C7_OrigemArquivo ==
  CarregarRetornou =>
    /\ Contem(df.cols, "Origem_Arquivo")
    /\ Len(df.rows) = TotalLinhas(Bons)
    /\ \A j \in 1..Len(Bons) : \A r \in 1..Len(Bons[j].rows) :
         df.rows[Deslocamento(Bons, j) + r][Posicao(df.cols, "Origem_Arquivo")]
           = Str(Bons[j].nome)

C7_Witness ==
  /\ CarregarRetornou
  /\ Len(Bons) >= 2
  /\ \E j \in 1..Len(Bons) : Contem(Bons[j].cols, "Origem_Arquivo") /\ Bons[j].rows # <<>>

\* C8: rows of a file that lacks a column hold a null there, a sum skips the
\* nulls, and a rule fires over the whole table once its column is in any
\* loaded file: 'Receita Total' and 'Custo Operacional Total' are the sums of
\* the column over the rows of the files that have it, 'Lucro Liquido' their
\* difference; the files [receita, despesa] and [receita] give 350, 100, 250.
C8_ColunasDiferentes ==
  (MetricasRetornou /\ pc = "graficos") =>
    /\ \A j \in 1..Len(Bons) : \A r \in 1..Len(Bons[j].rows) :
         \A h \in 1..Len(df.cols) :
           (df.cols[h] # "Origem_Arquivo" /\ ~Contem(Bons[j].cols, df.cols[h]))
             => df.rows[Deslocamento(Bons, j) + r][h] = Null
    /\ (\E j \in 1..Len(Bons) : Contem(Bons[j].cols, "receita")) =>
         /\ Contem(Chaves(metricas), "Receita Total")
         /\ Valor(metricas, "Receita Total")
              = Inteiro(TotalColuna(Bons, Rotulo("receita"), Len(Bons)))
    /\ (\E j \in 1..Len(Bons) : Contem(Bons[j].cols, "despesa")) =>
         /\ Contem(Chaves(metricas), "Custo Operacional Total")
         /\ Valor(metricas, "Custo Operacional Total")
              = Inteiro(TotalColuna(Bons, Rotulo("despesa"), Len(Bons)))
    /\ ((\E j \in 1..Len(Bons) : Contem(Bons[j].cols, "receita"))
        /\ (\E j \in 1..Len(Bons) : Contem(Bons[j].cols, "despesa"))) =>
         /\ Contem(Chaves(metricas), "Lucro Liquido")
         /\ Valor(metricas, "Lucro Liquido").num
              = TotalColuna(Bons, Rotulo("receita"), Len(Bons))
                - TotalColuna(Bons, Rotulo("despesa"), Len(Bons))
    /\ Nomes(Bons) \in {<<"a.csv", "b.csv">>, <<"b.csv", "a.csv">>} =>
         /\ Valor(metricas, "Receita Total") = Inteiro(350)
         /\ Valor(metricas, "Custo Operacional Total") = Inteiro(100)
         /\ Valor(metricas, "Lucro Liquido") = Inteiro(250)

C8_Witness ==
  /\ MetricasRetornou
  /\ pc = "graficos"
  /\ Nomes(dir) = <<"a.csv", "b.csv">>
  /\ Valor(metricas, "Lucro Liquido") = Inteiro(250)
  /\ df.rows[3][Posicao(df.cols, "despesa")] = Null

NomesGraficos == { g.nome : g \in graficos }

\* C9: with column presence decided case-insensitively, gerar_graficos
\* writes grafico_receita.html exactly when the table has a data and a
\* receita column, grafico_despesa.html exactly when it has a data and a
\* despesa column, and without a data column writes nothing and raises nothing.
C9_GraficosSemCaixa ==
  /\ GraficosRetornou =>
       /\ "grafico_receita.html" \in NomesGraficos
            <=> (TemColuna("data") /\ TemColuna("receita"))
       /\ "grafico_despesa.html" \in NomesGraficos
            <=> (TemColuna("data") /\ TemColuna("despesa"))
  /\ (MetricasRetornou /\ ~TemColuna("data")) => graficos = {}

\* C10: gerar_graficos leaves the consolidated table unchanged, so the
\* 'Dados Consolidados' sheet is the table carregar_dados returned.
C10_TabelaInalterada ==
  excel # <<>> => excel[1].dados = pd_concat(dfs)

====
